---- MODULE Spec2Model ----
(***************************************************************************)
(* A model of corpus_wrangler: the Wikimedia dump-file tracker             *)
(* (src/corpus_wrangler/wikimedia.py) and the DownloadTargets iterator     *)
(* (src/corpus_wrangler/corpus_wrangler.py).                               *)
(*                                                                         *)
(* File names are TLA+ strings, taken apart character by character with    *)
(* Len and SubSeq, the way the Python code takes them apart with split,    *)
(* startswith, "in" and re.match.                                          *)
(*                                                                         *)
(* Alphabet of the model: the ASCII characters that occur in the names     *)
(* below, plus one non-ASCII character, U+00B2 SUPERSCRIPT TWO, written    *)
(* "^" here so that the module stays plain ASCII.  U+00B2 is a character   *)
(* for which str.isnumeric() is True while the regular expression \d does  *)
(* not match it (its Unicode category is No, not Nd).  The ASCII           *)
(* circumflex itself is not part of the alphabet.                          *)
(***************************************************************************)
EXTENDS Integers, Sequences, FiniteSets, TLC

(***************************************************************************)
(* Python's None.  Optional strings (wiki, date, description) hold either  *)
(* a name over the alphabet or this value, which no name equals because    *)
(* "<" is not in the alphabet.                                             *)
(***************************************************************************)
None == "<None>"

\* ---------------------------------------------------------------- strings

\* s[i] of Python, 1-based.
CharAt(s, i) == SubSeq(s, i, i)

\* s[i:] of Python for the 1-based position i of its first character.
Suffix(s, i) == SubSeq(s, i, Len(s))

\* str.startswith
StartsWith(s, p) == Len(s) >= Len(p) /\ SubSeq(s, 1, Len(p)) = p

\* "p in s" of Python for strings
Contains(s, p) == \E i \in 1..(Len(s) - Len(p) + 1) : SubSeq(s, i, i + Len(p) - 1) = p

\* str.find(c) for a single character c: the first position, 0 when absent.
Find(s, c) ==
    IF \E i \in 1..Len(s) : CharAt(s, i) = c
    THEN CHOOSE i \in 1..Len(s) : CharAt(s, i) = c /\ \A j \in 1..(i - 1) : CharAt(s, j) # c
    ELSE 0

\* str.rfind(c) for a single character c: the last position, 0 when absent.
RFind(s, c) ==
    IF \E i \in 1..Len(s) : CharAt(s, i) = c
    THEN CHOOSE i \in 1..Len(s) : CharAt(s, i) = c /\ \A j \in (i + 1)..Len(s) : CharAt(s, j) # c
    ELSE 0

\* The characters matched by \d of re (Unicode category Nd) in the alphabet.
IsDecimalDigit(c) == c \in {"0", "1", "2", "3", "4", "5", "6", "7", "8", "9"}

\* The characters c of the alphabet with c.isnumeric(): the decimal digits
\* and U+00B2 (written "^").
IsNumericChar(c) == IsDecimalDigit(c) \/ c = "^"

\* str.isnumeric: at least one character, and all of them numeric.
isnumeric(s) == Len(s) > 0 /\ \A i \in 1..Len(s) : IsNumericChar(CharAt(s, i))

\* The regular expression \d+ matched against the whole of s.
AllDigits(s) == Len(s) > 0 /\ \A i \in 1..Len(s) : IsDecimalDigit(CharAt(s, i))

\* The characters of the alphabet in code point order; U+00B2 ("^") comes
\* after every ASCII character.
CodePointOrder == "-.0123456789ADEMRabcdefghijklmnopqrstuvwxyz^"

Ord(c) == CHOOSE i \in 1..Len(CodePointOrder) : CharAt(CodePointOrder, i) = c

\* a < b of Python for strings: lexicographic by code point.
RECURSIVE StrLess(_, _)
StrLess(a, b) ==
    IF Len(b) = 0 THEN FALSE
    ELSE IF Len(a) = 0 THEN TRUE
    ELSE IF CharAt(a, 1) = CharAt(b, 1) THEN StrLess(Suffix(a, 2), Suffix(b, 2))
    ELSE Ord(CharAt(a, 1)) < Ord(CharAt(b, 1))

\* ------------------------------------------------- module-level utilities

\* _known_wikis: the lines of data/known_wikis.txt (the model keeps two).
_known_wikis == {"enwiki", "frwiki"}

\* name.split('-'): a split at every dash, of which the first three parts
\* are kept
SplitDashAll(name) ==
    LET i1 == Find(name, "-") IN
    IF i1 = 0 THEN <<name>>
    ELSE LET first == SubSeq(name, 1, i1 - 1)
             rest == Suffix(name, i1 + 1)
             i2 == Find(rest, "-")
         IN IF i2 = 0 THEN <<first, rest>>
            ELSE LET tail == Suffix(rest, i2 + 1)
                     i3 == Find(tail, "-")
                 IN <<first, SubSeq(rest, 1, i2 - 1),
                      IF i3 = 0 THEN tail ELSE SubSeq(tail, 1, i3 - 1)>>

\* name.split('-', 2): at most two splits, so at most three parts.
SplitDash2(name) ==
    LET i1 == Find(name, "-") IN
    IF i1 = 0 THEN <<name>>
    ELSE LET first == SubSeq(name, 1, i1 - 1)
             rest == Suffix(name, i1 + 1)
             i2 == Find(rest, "-")
         IN IF i2 = 0 THEN <<first, rest>>
            ELSE <<first, SubSeq(rest, 1, i2 - 1), Suffix(rest, i2 + 1)>>

\* The test of line 67 on the second part: 8 characters, all numeric.
IsDumpDate(part) == Len(part) = 8 /\ isnumeric(part)

\* _parse_dump_info(name): <<wiki, date, description>>
_parse_dump_info(name) ==
    LET name_parts == SplitDash2(name) IN
    IF name_parts[1] \in _known_wikis
    THEN IF Len(name_parts) > 1 /\ IsDumpDate(name_parts[2])
         THEN IF Len(name_parts) = 3
              THEN <<name_parts[1], name_parts[2], name_parts[3]>>
              ELSE <<name_parts[1], name_parts[2], None>>
         ELSE <<name_parts[1], None, None>>
    ELSE <<None, None, None>>

\* re.match(r"^PREFIX\d{0,2}EXT-p\d+p\d+$", name): the digits after the
\* prefix may be missing
ShapedPaged_OptionalShard(name, prefix, ext) ==
    /\ StartsWith(name, prefix)
    /\ \E k \in {0, 1, 2} :
         LET after == Suffix(name, Len(prefix) + 1) IN
         /\ Len(after) >= k
         /\ \A i \in 1..k : IsDecimalDigit(CharAt(after, i))
         /\ LET tail == Suffix(after, k + 1)
                lead == ext \o "-p"
            IN /\ StartsWith(tail, lead)
               /\ LET range == Suffix(tail, Len(lead) + 1) IN
                  \E j \in 1..Len(range) :
                     /\ AllDigits(SubSeq(range, 1, j - 1))
                     /\ CharAt(range, j) = "p"
                     /\ AllDigits(Suffix(range, j + 1))

\* re.match(r"^PREFIX(\d|\d\d)EXT-p\d+p\d+$", name): one or two digits after
\* the prefix, the extension, then the page range -pSTARTpEND.
ShapedPaged(name, prefix, ext) ==
    /\ StartsWith(name, prefix)
    /\ \E k \in {1, 2} :
         LET after == Suffix(name, Len(prefix) + 1) IN
         /\ Len(after) >= k
         /\ \A i \in 1..k : IsDecimalDigit(CharAt(after, i))
         /\ LET tail == Suffix(after, k + 1)
                lead == ext \o "-p"
            IN /\ StartsWith(tail, lead)
               /\ LET range == Suffix(tail, Len(lead) + 1) IN
                  \E j \in 1..Len(range) :
                     /\ AllDigits(SubSeq(range, 1, j - 1))
                     /\ CharAt(range, j) = "p"
                     /\ AllDigits(Suffix(range, j + 1))

\* re.match(r"^PREFIX(\d|\d\d)\.xml$", name): one or two digits after the
\* prefix, then .xml and nothing else.
ShapedXml(name, prefix) ==
    /\ StartsWith(name, prefix)
    /\ \E k \in {1, 2} :
         LET after == Suffix(name, Len(prefix) + 1) IN
         /\ Len(after) = k + 4
         /\ \A i \in 1..k : IsDecimalDigit(CharAt(after, i))
         /\ Suffix(after, k + 1) = ".xml"

\* CorpusFiles._description_columns and _descriptions_init
_description_columns ==
    {"pages", "stubs", "logging", "abstracts", "sql", "checksum", "titles", "namespaces",
     "articles", "index", "rev_metadata", "current", "history", "set", "indexed"}

_descriptions_init == [k \in _description_columns |-> FALSE]

\* description[k] = True for every k of keys
SetFlags(description, keys) ==
    [k \in _description_columns |-> IF k \in keys THEN TRUE ELSE description[k]]

\* The flags a shaped match adds
SetIf(cond) == IF cond THEN {"set"} ELSE {}

\* The pages branch of _parse_wiki_file_names (lines 88-115): the keys it sets.
PagesKeys(name) ==
    {"pages"} \cup
    (IF StartsWith(name, "pages-meta")
     THEN {"rev_metadata"} \cup
          (IF StartsWith(name, "pages-meta-history")
           THEN {"history"} \cup SetIf(ShapedPaged(name, "pages-meta-history", ".xml"))
           ELSE IF StartsWith(name, "pages-meta-current")
           THEN {"current"} \cup SetIf(ShapedPaged(name, "pages-meta-current", ".xml"))
           ELSE {})
     ELSE IF StartsWith(name, "pages-articles")
     THEN {"articles"} \cup
          (IF StartsWith(name, "pages-articles-multistream")
           THEN {"indexed"} \cup
                (IF ShapedPaged(name, "pages-articles-multistream", ".xml")
                 THEN {"set"}
                 ELSE IF StartsWith(name, "pages-articles-multistream-index")
                 THEN {"index"} \cup
                      SetIf(ShapedPaged(name, "pages-articles-multistream-index", ".txt"))
                 ELSE {})
           ELSE SetIf(ShapedPaged(name, "pages-articles", ".xml")))
     ELSE IF StartsWith(name, "pages-logging")
     THEN {"logging"} \cup SetIf(ShapedXml(name, "pages-logging"))
     ELSE {})

\* The stub branch of _parse_wiki_file_names (lines 116-130): the keys it sets.
StubKeys(name) ==
    IF StartsWith(name, "stub-articles")
    THEN {"articles"} \cup SetIf(ShapedXml(name, "stub-articles"))
    ELSE IF StartsWith(name, "stub-meta")
    THEN {"rev_metadata"} \cup
         (IF StartsWith(name, "stub-meta-current")
          THEN {"current"} \cup SetIf(ShapedXml(name, "stub-meta-current"))
          ELSE IF StartsWith(name, "stub-meta-history")
          THEN {"history"} \cup SetIf(ShapedXml(name, "stub-meta-history"))
          ELSE {})
    ELSE {}

\* The tests of the ladder as independent ifs: every test that holds sets
\* its keys
ParsedKeys_Independent(name) ==
    (IF StartsWith(name, "pages") THEN PagesKeys(name) ELSE {})
    \cup (IF StartsWith(name, "stub") THEN StubKeys(name) ELSE {})
    \cup (IF StartsWith(name, "abstract")
          THEN {"abstracts"} \cup SetIf(ShapedXml(name, "abstract")) ELSE {})
    \cup (IF Contains(name, ".sql") THEN {"sql"} ELSE {})
    \cup (IF name \in {"md5sums", "sha1sums"} THEN {"checksum"} ELSE {})
    \cup (IF StartsWith(name, "all-titles") THEN {"titles"} ELSE {})
    \cup (IF name = "siteinfo-namespaces.json" THEN {"namespaces"} ELSE {})

\* The if/elif ladder of _parse_wiki_file_names: the keys it sets for name.
ParsedKeys(name) ==
    IF StartsWith(name, "pages") THEN PagesKeys(name)
    ELSE IF StartsWith(name, "stub") THEN StubKeys(name)
    ELSE IF StartsWith(name, "abstract")
    THEN {"abstracts"} \cup SetIf(ShapedXml(name, "abstract"))
    ELSE IF Contains(name, ".sql") THEN {"sql"}
    ELSE IF name \in {"md5sums", "sha1sums"} THEN {"checksum"}
    ELSE IF StartsWith(name, "all-titles") THEN {"titles"}
    ELSE IF name = "siteinfo-namespaces.json" THEN {"namespaces"}
    ELSE {}

\* The parser without the assignments of lines 91 and 104: rev_metadata and
\* indexed are left as they were
_parse_without_coarse(name, description) ==
    SetFlags(description, ParsedKeys(name) \ {"rev_metadata", "indexed"})

\* _parse_wiki_file_names(name, description) for a string name: the
\* description dict after the call.  (For name = None the first test,
\* name.startswith, raises AttributeError: see add_files.)
_parse_wiki_file_names(name, description) == SetFlags(description, ParsedKeys(name))

\* The test "if features:" in place of any(features.values()): a dict with
\* keys is true whatever its values.
AnyFlag_DictTruth(features) == DOMAIN features # {}

\* any(features.values())
AnyFlag(features) == \E k \in _description_columns : features[k]

\* os.path.splitext(file_name) for a name without directory separators:
\* <<root, ext>>, split at the last dot unless only dots precede it.
splitext(file_name) ==
    LET dotIndex == RFind(file_name, ".") IN
    IF dotIndex > 0 /\ \E i \in 1..(dotIndex - 1) : CharAt(file_name, i) # "."
    THEN <<SubSeq(file_name, 1, dotIndex - 1), Suffix(file_name, dotIndex)>>
    ELSE <<file_name, "">>

\* os.path.getsize of a file that can be stat'ed: the files of the model are
\* empty, as the files the tests create are.
getsize == 0

\* _get_file_info(pathname) for pathname = path/file_name, when getsize
\* succeeds: the tuple it returns, named by _file_info_keys (line 145).
_get_file_info(path, file_name) ==
    LET parts == splitext(file_name)
        info == _parse_dump_info(parts[1])
    IN [path |-> path, name |-> parts[1], file_type |-> parts[2], size |-> getsize,
        wiki |-> info[1], date |-> info[2], description |-> info[3]]

\* ------------------------------------------------------- the state space

\* The total number of files scanned, over all directories
MaxFiles == 3

\* The directories scanned
Dirs == {"/data"}

\* The file names the scanned directories may hold
Files ==
    {"enwiki-20201001-md5sums.txt",
     "enwiki-20201001-sha1sums.txt",
     "enwiki-20201001-junk.txt",
     "enwiki-20201001.txt",
     "enwiki-notadate-md5sums.txt",
     "enwiki-^^^^^^^^-md5sums.txt",
     "frwiki-20201020-pages-articles.xml.bz2",
     "enwiki-20201001-stub.sql.gz",
     "README.md"}

\* The wiki names and dump dates the queries are called with
QueryWikis == {"enwiki", "frwiki"}
QueryDates == {"20201001", "20201020"}

\* _get_file_info and _parse_wiki_file_names tabulated over the files of the
\* model, so that each name is taken apart once.
FileInfoTable == [path \in Dirs |-> [f \in Files |-> _get_file_info(path, f)]]

FeaturesTable ==
    [d \in {FileInfoTable[path][f].description : path \in Dirs, f \in Files} \ {None} |->
        _parse_wiki_file_names(d, _descriptions_init)]

\* ------------------------------------------------------------- FileSet

\* FileSet.__init__: self._files = None.  A FileSet is modelled by frame
\* (whether _files is a DataFrame) and the rows of that DataFrame.  A
\* DataFrame with no rows was built from empty lists only and has no columns;
\* one with rows has the columns of its rows.
FileSetInit == [frame |-> FALSE, rows |-> <<>>]

\* FileSet._add_rows(file_rows)
_add_rows(files, file_rows) == [frame |-> TRUE, rows |-> files.rows \o file_rows]

\* The file_dict of an unknown file after 'del file_dict["description"]'
UnknownRow(file_dict) ==
    [path |-> file_dict.path, name |-> file_dict.name, file_type |-> file_dict.file_type,
     size |-> file_dict.size, wiki |-> file_dict.wiki, date |-> file_dict.date]

\* UnknownFiles.add_files(file_list): the UnknownFiles._files it leaves
UnknownFiles_add_files(files, file_list) ==
    _add_rows(files, [i \in 1..Len(file_list) |-> UnknownRow(file_list[i])])

\* {**file_dict, **features} after wiki, date and description are deleted
CorpusRow(file_dict, features) ==
    [path |-> file_dict.path, name |-> file_dict.name, file_type |-> file_dict.file_type,
     size |-> file_dict.size] @@ features

\* The features add_files computes for a file_dict with a string description
Features(file_dict) == FeaturesTable[file_dict.description]

\* The first position of file_list whose description is None, 0 if none:
\* there _parse_wiki_file_names raises AttributeError (None.startswith).
FirstNoneDescription(file_list) ==
    IF \E i \in 1..Len(file_list) : file_list[i].description = None
    THEN CHOOSE i \in 1..Len(file_list) :
            /\ file_list[i].description = None
            /\ \A j \in 1..(i - 1) : file_list[j].description # None
    ELSE 0

RECURSIVE SelectRows(_, _)
\* The rows add_files collects, in the order of file_list: file_rows for
\* known = TRUE, unknown_list for known = FALSE.
SelectRows(file_list, known) ==
    IF file_list = <<>> THEN <<>>
    ELSE LET file_dict == Head(file_list)
             features == Features(file_dict)
             rest == SelectRows(Tail(file_list), known)
         IN IF AnyFlag(features) = known
            THEN <<IF known THEN CorpusRow(file_dict, features) ELSE file_dict>> \o rest
            ELSE rest

\* DataFrame.astype(dict) raises KeyError for a key that is no column: the
\* frame built from an empty list of rows has no columns.
AstypeRaises(files) == files.rows = <<>>

\* CorpusFiles.add_files(file_list, unknowns) on a CorpusFiles whose _files
\* is files: the _files and the UnknownFiles._files it leaves, the exception
\* it raises ("none": it returns), and the names handed to
\* _parse_wiki_file_names.
CorpusFiles_add_files(files, file_list, unknowns) ==
    LET bad == FirstNoneDescription(file_list) IN
    IF bad # 0
    THEN [files |-> files, unknowns |-> unknowns, raised |-> "AttributeError",
          parsed |-> {file_list[i].description : i \in 1..bad}]
    ELSE LET added == _add_rows(files, SelectRows(file_list, TRUE))
             parsed == {file_list[i].description : i \in 1..Len(file_list)}
         IN IF AstypeRaises(added)
            THEN [files |-> added, unknowns |-> unknowns, raised |-> "KeyError",
                  parsed |-> parsed]
            ELSE [files |-> added,
                  unknowns |-> UnknownFiles_add_files(unknowns, SelectRows(file_list, FALSE)),
                  raised |-> "none", parsed |-> parsed]

\* ------------------------------------------------------------- Corpora

\* An empty dict
EmptyDict == [k \in {} |-> FileSetInit]

\* The rows of a list of file_dicts with (dated = TRUE) or without a date:
\* the two groups of line 477.
RECURSIVE SplitByDate(_, _)
SplitByDate(file_list, dated) ==
    IF file_list = <<>> THEN <<>>
    ELSE IF (Head(file_list).date # None) = dated
         THEN <<Head(file_list)>> \o SplitByDate(Tail(file_list), dated)
         ELSE SplitByDate(Tail(file_list), dated)

\* The rows of one (wiki, date) group, in the order of file_list
RECURSIVE GroupRows(_, _, _)
GroupRows(file_list, wiki, date) ==
    IF file_list = <<>> THEN <<>>
    ELSE IF Head(file_list).wiki = wiki /\ Head(file_list).date = date
         THEN <<Head(file_list)>> \o GroupRows(Tail(file_list), wiki, date)
         ELSE GroupRows(Tail(file_list), wiki, date)

\* The order of the group keys of groupby(["wiki", "date"]): sorted.
KeyLess(a, b) == StrLess(a[1], b[1]) \/ (a[1] = b[1] /\ StrLess(a[2], b[2]))

RECURSIVE SortedKeys(_)
SortedKeys(keys) ==
    IF keys = {} THEN <<>>
    ELSE LET first == CHOOSE a \in keys : \A b \in keys \ {a} : KeyLess(a, b)
         IN <<first>> \o SortedKeys(keys \ {first})

\* Lines 482-484: storage for each wiki of file_df
CreateWikis(corpora, wikis) ==
    [w \in (DOMAIN corpora) \cup wikis |-> IF w \in DOMAIN corpora THEN corpora[w] ELSE EmptyDict]

\* Lines 487-492: one CorpusFiles per dump, created when its date is new,
\* extended otherwise; an exception raised by add_files ends the loop, and a
\* CorpusFiles whose constructor raised is never stored.
RECURSIVE ScanGroups(_, _, _)
ScanGroups(keys, file_list, st) ==
    IF keys = <<>> \/ st.raised # "none" THEN st
    ELSE LET wiki == Head(keys)[1]
             date == Head(keys)[2]
             files == GroupRows(file_list, wiki, date)
             old == IF date \in DOMAIN st.corpora[wiki] THEN st.corpora[wiki][date]
                    ELSE FileSetInit
             r == CorpusFiles_add_files(old, files, st.unknowns)
         IN ScanGroups(Tail(keys), file_list,
                [corpora |-> IF r.raised = "none"
                             THEN [st.corpora EXCEPT ![wiki] = (date :> r.files) @@ @]
                             ELSE st.corpora,
                 unknowns |-> r.unknowns,
                 raised |-> r.raised,
                 parsed |-> st.parsed \cup r.parsed])

\* Lines 463-492 of _scan_dir_for_file_sets for the file_list of line 462.
ScanFileList(corpora, unknowns, file_list) ==
    LET st0 == [corpora |-> corpora, unknowns |-> unknowns, raised |-> "none", parsed |-> {}]
        dated == SplitByDate(file_list, TRUE)
        undated == SplitByDate(file_list, FALSE)
    IN IF file_list = <<>> THEN st0
       ELSE IF dated = <<>>
       THEN [st0 EXCEPT !.unknowns = UnknownFiles_add_files(unknowns, file_list)]
       ELSE LET st1 == [st0 EXCEPT
                          !.unknowns = IF undated # <<>>
                                       THEN UnknownFiles_add_files(unknowns, undated)
                                       ELSE unknowns,
                          !.corpora = CreateWikis(corpora,
                                         {dated[i].wiki : i \in 1..Len(dated)})]
            IN ScanGroups(SortedKeys({<<dated[i].wiki, dated[i].date>> : i \in 1..Len(dated)}),
                          dated, st1)

RECURSIVE Readable(_, _)
Readable(entries, bad) ==
    IF entries = <<>> THEN <<>>
    ELSE IF Head(entries) \in bad THEN Readable(Tail(entries), bad)
         ELSE <<Head(entries)>> \o Readable(Tail(entries), bad)

\* _scan_dir_for_file_sets with the entries that cannot be stat'ed skipped
\* and the others scanned
_scan_dir_skipping_bad(corpora, unknowns, path, entries, bad) ==
    [ScanFileList(corpora, unknowns,
                  [i \in 1..Len(Readable(entries, bad)) |->
                      FileInfoTable[path][Readable(entries, bad)[i]]])
     EXCEPT !.raised = IF Readable(entries, bad) # entries /\ @ = "none" THEN "OSError" ELSE @]

\* Corpora._scan_dir_for_file_sets(path) for a directory whose files are
\* entries (in os.scandir order), of which those in bad cannot be stat'ed:
\* the registry and the unknown files it leaves and the exception it raises.
\* os.path.getsize raises OSError inside the list comprehension of line 462,
\* before anything is recorded.
_scan_dir_for_file_sets(corpora, unknowns, path, entries, bad) ==
    IF \E i \in 1..Len(entries) : entries[i] \in bad
    THEN [corpora |-> corpora, unknowns |-> unknowns, raised |-> "OSError", parsed |-> {}]
    ELSE ScanFileList(corpora, unknowns,
                      [i \in 1..Len(entries) |-> FileInfoTable[path][entries[i]]])

\* ------------------------------------------------------------- queries

\* Corpora.get_wikis(): the keys of _corpora (the order of the list is the
\* insertion order of the dict, which the model does not keep).
get_wikis(corpora) == [raised |-> "none", keys |-> DOMAIN corpora]

\* get_dumps with _corpora.get(wiki, {}) in place of _corpora[wiki]
get_dumps_Default(corpora, wiki) ==
    [raised |-> "none", keys |-> IF wiki \in DOMAIN corpora THEN DOMAIN corpora[wiki] ELSE {}]

\* Corpora.get_dumps(wiki) for a wiki name: _corpora[wiki] raises KeyError
\* for a wiki that is no key.
get_dumps(corpora, wiki) ==
    IF wiki \in DOMAIN corpora
    THEN [raised |-> "none", keys |-> DOMAIN corpora[wiki]]
    ELSE [raised |-> "KeyError", keys |-> {}]

RECURSIVE SumCounts(_, _)
SumCounts(corpora, keys) ==
    IF keys = {} THEN 0
    ELSE LET k == CHOOSE k \in keys : TRUE
         IN Len(corpora[k[1]][k[2]].rows) + SumCounts(corpora, keys \ {k})

\* Corpora.get_file_count() without arguments: the sum over every dump
Corpora_get_file_count(corpora) ==
    SumCounts(corpora, UNION {{<<w, d>> : d \in DOMAIN corpora[w]} : w \in DOMAIN corpora})

\* CorporaTracker.get_local_file_count(): FileSet.get_file_count of the
\* unknown files reads _files.shape, an AttributeError while _files is None.
get_local_file_count(corpora, unknowns) ==
    IF unknowns.frame
    THEN [raised |-> "none", count |-> Corpora_get_file_count(corpora) + Len(unknowns.rows)]
    ELSE [raised |-> "AttributeError", count |-> 0]

\* row.path + '/' + row.name, the string agg('/'.join, axis=1) builds
PathName(row) == row.path \o "/" \o row.name

RECURSIVE FilterNames(_, _, _)
\* The path/name strings of the rows that match wiki and date (None: any)
FilterNames(rows, wiki, date) ==
    IF rows = <<>> THEN <<>>
    ELSE IF (wiki = None \/ Head(rows).wiki = wiki) /\ (date = None \/ Head(rows).date = date)
         THEN <<PathName(Head(rows))>> \o FilterNames(Tail(rows), wiki, date)
         ELSE FilterNames(Tail(rows), wiki, date)

\* get_files with the date of the (wiki, date) filter left out
get_files_WikiOnly(unknowns, wiki, date) ==
    IF wiki # None
    THEN IF unknowns.rows = <<>> THEN [raised |-> "AttributeError", names |-> <<>>]
         ELSE [raised |-> "none", names |-> FilterNames(unknowns.rows, wiki, None)]
    ELSE IF ~unknowns.frame THEN [raised |-> "TypeError", names |-> <<>>]
    ELSE IF unknowns.rows = <<>> THEN [raised |-> "KeyError", names |-> <<>>]
    ELSE [raised |-> "none", names |-> FilterNames(unknowns.rows, None, None)]

\* UnknownFiles.get_files(wiki, date).  While _files is None, _files.wiki
\* raises AttributeError and _files[[...]] raises TypeError; on the frame
\* without columns they raise AttributeError and KeyError.
get_files(unknowns, wiki, date) ==
    IF wiki # None /\ date # None
    THEN IF unknowns.rows = <<>> THEN [raised |-> "AttributeError", names |-> <<>>]
         ELSE [raised |-> "none", names |-> FilterNames(unknowns.rows, wiki, date)]
    ELSE IF wiki # None
    THEN IF unknowns.rows = <<>> THEN [raised |-> "AttributeError", names |-> <<>>]
         ELSE [raised |-> "none", names |-> FilterNames(unknowns.rows, wiki, None)]
    ELSE IF ~unknowns.frame THEN [raised |-> "TypeError", names |-> <<>>]
    ELSE IF unknowns.rows = <<>> THEN [raised |-> "KeyError", names |-> <<>>]
    ELSE [raised |-> "none", names |-> FilterNames(unknowns.rows, None, None)]

RECURSIVE AllNames(_)
\* list(self._files.name): the checksum column not consulted
AllNames(rows) == IF rows = <<>> THEN <<>> ELSE <<Head(rows).name>> \o AllNames(Tail(rows))

RECURSIVE ChecksumNames(_)
\* list(self._files[self._files.checksum].name)
ChecksumNames(rows) ==
    IF rows = <<>> THEN <<>>
    ELSE IF Head(rows).checksum THEN <<Head(rows).name>> \o ChecksumNames(Tail(rows))
         ELSE ChecksumNames(Tail(rows))

\* CorpusFiles.get_checksum_files()
CorpusFiles_get_checksum_files(files) == ChecksumNames(files.rows)

\* Corpora.get_checksum_files(wiki, date) with both arguments given
get_checksum_files(corpora, wiki, date) ==
    IF wiki \in DOMAIN corpora /\ date \in DOMAIN corpora[wiki]
    THEN [raised |-> "none", names |-> CorpusFiles_get_checksum_files(corpora[wiki][date])]
    ELSE [raised |-> "KeyError", names |-> <<>>]

\* ------------------------------------------------------- the state machine

\* The listings of a directory: its files in any os.scandir order
RECURSIVE Arrangements(_, _)
Arrangements(S, n) ==
    IF n = 0 THEN {<<>>}
    ELSE LET shorter == Arrangements(S, n - 1)
         IN shorter \cup {Append(t, f) : t \in {u \in shorter : Len(u) = n - 1}, f \in S}

Listings == {t \in Arrangements(Files, MaxFiles) : \A i, j \in 1..Len(t) : i # j => t[i] # t[j]}

VARIABLES
    _corpora,        \* Corpora._corpora: wiki -> date -> the _files of its CorpusFiles
    _unknown_files,  \* UnknownFiles._files
    raised,          \* the exception that ended the scan of the directories, "none" if none
    result,          \* the last query and what it returned or raised
    scanned,         \* history: every directory entry handed to a scan, in order
    scan,            \* history: the last directory scanned, its listing and its bad entries
    parsed           \* history: the names handed to _parse_wiki_file_names

\* The parsing of one file name, on its own: _parse_dump_info, then
\* _parse_wiki_file_names on the description it returned
VARIABLES
    file_base,       \* the name handed to _parse_dump_info: a file name without its extension
    made_of,         \* history: the parts file_base was put together from
    dump_info,       \* what _parse_dump_info returned: <<wiki, date, description>>
    flags,           \* the description dict handed to and filled by _parse_wiki_file_names
    parse_step       \* "idle", "named", "extracted", "classified" or the exception raised

\* One DownloadTargets object and its caller
VARIABLES
    _url_list,       \* DownloadTargets._url_list
    _index,          \* DownloadTargets._index
    next_result,     \* how the last call of __next__ ended and with what value
    returned,        \* history: the values the calls of __next__ returned, in order
    calls            \* history: the number of calls of __next__

tracker_vars == <<_corpora, _unknown_files, raised, result, scanned, scan, parsed>>

parser_vars == <<file_base, made_of, dump_info, flags, parse_step>>

targets_vars == <<_url_list, _index, next_result, returned, calls>>

vars == <<tracker_vars, parser_vars, targets_vars>>

NoInfo == <<None, None, None>>

NoCall == [how |-> "none", value |-> None]

\* No file name is being parsed
ParserIdle ==
    /\ file_base = None
    /\ made_of = NoInfo
    /\ dump_info = NoInfo
    /\ flags = [k \in _description_columns |-> FALSE]
    /\ parse_step = "idle"

\* No DownloadTargets object exists
TargetsIdle ==
    /\ _url_list = <<>>
    /\ _index = 0
    /\ next_result = NoCall
    /\ returned = <<>>
    /\ calls = 0

NoResult == [op |-> "none", wiki |-> None, date |-> None, raised |-> "none",
             keys |-> {}, names |-> <<>>, count |-> 0]

NoScan == [path |-> None, entries |-> <<>>, bad |-> {}]

\* CorporaTracker.__init__ up to the scan of the first directory (lines 322
\* and 451-454): no corpora, an UnknownFiles whose _files is None.
Init ==
    /\ _corpora = EmptyDict
    /\ _unknown_files = FileSetInit
    /\ raised = "none"
    /\ result = NoResult
    /\ scanned = <<>>
    /\ scan = NoScan
    /\ parsed = {}
    /\ ParserIdle
    /\ TargetsIdle

\* One turn of the loop of Corpora.__init__ (lines 455-456): the scan of one
\* more directory.  An exception leaves the loop and the constructor.
Scan(path, entries, bad) ==
    /\ \E r \in {_scan_dir_for_file_sets(_corpora, _unknown_files, path, entries, bad)} :
       /\ _corpora' = r.corpora
       /\ _unknown_files' = r.unknowns
       /\ raised' = r.raised
       /\ parsed' = parsed \cup r.parsed
    /\ scanned' = scanned \o [i \in 1..Len(entries) |-> [path |-> path, file_name |-> entries[i]]]
    /\ scan' = [path |-> path, entries |-> entries, bad |-> bad]
    /\ result' = NoResult
    /\ UNCHANGED <<parser_vars, targets_vars>>

\* os.path.getsize raises for the first entry that cannot be stat'ed and the
\* scan ends there, so one bad entry stands for any number of them.
ScanDir ==
    /\ raised = "none"
    /\ result = NoResult
    /\ \E path \in Dirs, entries \in {t \in Listings : Len(scanned) + Len(t) <= MaxFiles} :
          \E bad \in {{}} \cup {{entries[i]} : i \in 1..Len(entries)} : Scan(path, entries, bad)

\* A query of the tracker once it is constructed: the state is left as it is.
Query(op, wiki, date, r) ==
    /\ raised = "none"
    /\ result = NoResult
    /\ result' = [NoResult EXCEPT !.op = op, !.wiki = wiki, !.date = date, !.raised = r.raised,
                                  !.keys = IF "keys" \in DOMAIN r THEN r.keys ELSE {},
                                  !.names = IF "names" \in DOMAIN r THEN r.names ELSE <<>>,
                                  !.count = IF "count" \in DOMAIN r THEN r.count ELSE 0]
    /\ UNCHANGED <<_corpora, _unknown_files, raised, scanned, scan, parsed>>
    /\ UNCHANGED <<parser_vars, targets_vars>>

\* CorporaTracker.get_local_wikis()
GetLocalWikis == Query("get_local_wikis", None, None, get_wikis(_corpora))

\* CorporaTracker.get_local_dumps(wiki)
GetLocalDumps == \E wiki \in QueryWikis : Query("get_local_dumps", wiki, None, get_dumps(_corpora, wiki))

\* CorporaTracker.get_local_file_count()
GetLocalFileCount ==
    Query("get_local_file_count", None, None, get_local_file_count(_corpora, _unknown_files))

\* CorporaTracker.get_unknown_files(wiki, date)
GetUnknownFiles ==
    \E wiki \in QueryWikis \cup {None}, date \in QueryDates \cup {None} :
        Query("get_unknown_files", wiki, date, get_files(_unknown_files, wiki, date))

\* CorporaTracker.get_local_checksum_files(wiki, date)
GetLocalChecksumFiles ==
    \E wiki \in QueryWikis, date \in QueryDates :
        Query("get_local_checksum_files", wiki, date, get_checksum_files(_corpora, wiki, date))

\* The caller takes what the query returned or raised.
Return ==
    /\ result # NoResult
    /\ result' = NoResult
    /\ UNCHANGED <<_corpora, _unknown_files, raised, scanned, scan, parsed>>
    /\ UNCHANGED <<parser_vars, targets_vars>>

Next ==
    \/ ScanDir
    \/ GetLocalWikis
    \/ GetLocalDumps
    \/ GetLocalFileCount
    \/ GetUnknownFiles
    \/ GetLocalChecksumFiles
    \/ Return

Spec == Init /\ [][Next]_vars

\* ------------------------------------------- the parsing of one file name

\* The first parts of the file names parsed: known wikis and others
WikiParts == {"enwiki", "frwiki", "dewiki", "pages"}

\* The second parts: dump dates (no calendar dates among them), strings of
\* 7 and 9 digits, of letters, and of 8 numeric characters that are no digits
DateParts == {"20201001", "99999999", "2020100", "202010011", "notadate", "^^^^^^^^"}

\* The third parts: the descriptions handed to _parse_wiki_file_names
Descriptions ==
    {"pages", "pages.sql", "pages-meta", "pages-other",
     "pages-meta-history", "pages-meta-history.xml-p1p2", "pages-meta-history1.xml-p1p2",
     "pages-meta-history27.xml-p1000p2000", "pages-meta-history123.xml-p1p2",
     "pages-meta-history1.xml-p1p", "pages-meta-history1.xml",
     "pages-meta-current", "pages-meta-current.xml-p1p2", "pages-meta-current5.xml-p1p2",
     "pages-articles", "pages-articles.xml-p1p2", "pages-articles3.xml-p10p20",
     "pages-articles123.xml-p1p2", "pages-articles1.sql-p1p2",
     "pages-articles-multistream", "pages-articles-multistream.xml-p1p2",
     "pages-articles-multistream1.xml-p1p2",
     "pages-articles-multistream-index", "pages-articles-multistream-index.txt-p1p2",
     "pages-articles-multistream-index1.txt-p1p2", "pages-articles-multistream-index12.txt-p1p2",
     "pages-logging", "pages-logging.xml", "pages-logging1.xml", "pages-logging123.xml",
     "stub", "stub.sql", "stubs", "stub-articles", "stub-articles.xml", "stub-articles1.xml",
     "stub-articles.sql", "stub-meta", "stub-meta-current", "stub-meta-current.xml",
     "stub-meta-current12.xml", "stub-meta-history", "stub-meta-history1.xml",
     "stub-meta-history123.xml",
     "abstract", "abstract.xml", "abstract1.xml", "abstract.sql",
     "page.sql", "md5sums.sql", "all-titles.sql", "siteinfo-namespaces.json.sql",
     "md5sums", "sha1sums", "md5sums-old",
     "all-titles", "all-titles-in-ns0", "siteinfo-namespaces.json", "junk", ""}

\* The parts a parsed name is put together from: one, two or three of them
NameParts ==
    {<<w, None, None>> : w \in WikiParts}
    \cup {<<w, d, None>> : w \in WikiParts, d \in DateParts}
    \cup {<<w, d, t>> : w \in WikiParts, d \in DateParts, t \in Descriptions}

\* The name with these parts: they are joined by dashes
JoinParts(parts) ==
    parts[1] \o (IF parts[2] = None THEN "" ELSE "-" \o parts[2])
             \o (IF parts[3] = None THEN "" ELSE "-" \o parts[3])

\* A file name, without its extension, is about to be parsed.
ParserInit ==
    /\ _corpora = EmptyDict
    /\ _unknown_files = FileSetInit
    /\ raised = "none"
    /\ result = NoResult
    /\ scanned = <<>>
    /\ scan = NoScan
    /\ parsed = {}
    /\ TargetsIdle
    /\ made_of \in NameParts
    /\ file_base = JoinParts(made_of)
    /\ dump_info = NoInfo
    /\ flags = _descriptions_init
    /\ parse_step = "named"

\* _get_file_info, line 152: info = _parse_dump_info(file_parts[0])
ParseDumpInfo ==
    /\ parse_step = "named"
    /\ dump_info' = _parse_dump_info(file_base)
    /\ parse_step' = "extracted"
    /\ UNCHANGED <<file_base, made_of, flags, tracker_vars, targets_vars>>

\* CorpusFiles.add_files, lines 273-275, for a file of a dump (the files
\* without a dump date are taken out at lines 476-479):
\* _parse_wiki_file_names(file_dict["description"], features), which raises
\* AttributeError at line 88 when the description is None.
ParseWikiFileNames ==
    /\ parse_step = "extracted"
    /\ dump_info[2] # None
    /\ IF dump_info[3] = None
       THEN /\ parse_step' = "AttributeError"
            /\ flags' = flags
       ELSE /\ parse_step' = "classified"
            /\ flags' = _parse_wiki_file_names(dump_info[3], flags)
    /\ UNCHANGED <<file_base, made_of, dump_info, tracker_vars, targets_vars>>

ParserNext ==
    \/ ParseDumpInfo
    \/ ParseWikiFileNames

ParserSpec == ParserInit /\ [][ParserNext]_vars

\* -------------------------------------------------------- DownloadTargets

\* The longest list of targets and the number of calls of __next__ followed
MaxTargets == 3
MaxCalls == 5

\* The targets: urls, of which a list may hold one twice
Urls == {"u1", "u2", "u3"}

\* The class StopIteration, as a value
StopIteration == "<class StopIteration>"

\* The lists of targets
TargetLists == UNION {[1..n -> Urls] : n \in 0..MaxTargets}

\* DownloadTargets.__init__(targets)
DownloadTargetsInit(targets) ==
    /\ _url_list = targets
    /\ _index = 0

\* DownloadTargets.__next__(): how it ends, with what value, and the
\* _index it leaves.  (url_list[index + 1]: Python counts from 0.)
__next__(url_list, index) ==
    IF index < Len(url_list)
    THEN [how |-> "return", value |-> url_list[index + 1], index |-> index + 1]
    ELSE [how |-> "return", value |-> StopIteration, index |-> index]

\* A DownloadTargets object was made from a list of targets.
TargetsInit ==
    /\ _corpora = EmptyDict
    /\ _unknown_files = FileSetInit
    /\ raised = "none"
    /\ result = NoResult
    /\ scanned = <<>>
    /\ scan = NoScan
    /\ parsed = {}
    /\ ParserIdle
    /\ \E targets \in TargetLists : DownloadTargetsInit(targets)
    /\ next_result = NoCall
    /\ returned = <<>>
    /\ calls = 0

\* One call of __next__ by the caller
CallNext ==
    /\ calls < MaxCalls
    /\ \E r \in {__next__(_url_list, _index)} :
          /\ _index' = r.index
          /\ next_result' = [how |-> r.how, value |-> r.value]
          /\ returned' = IF r.how = "return" THEN Append(returned, r.value) ELSE returned
    /\ calls' = calls + 1
    /\ UNCHANGED <<_url_list, tracker_vars, parser_vars>>

TargetsNext == CallNext

TargetsSpec == TargetsInit /\ [][TargetsNext]_vars

\* ------------------------------------------------------------ the claims

\* The directory entries that were taken in: all those scanned, but for the
\* listing of a scan that os.path.getsize ended with OSError.
Accepted ==
    IF raised = "OSError" THEN SubSeq(scanned, 1, Len(scanned) - Len(scan.entries))
    ELSE scanned

\* The dash-separated parts of an entry's base name, and what the claims say
\* of them: a known collection, a date of 8 decimal digits, a remainder.
PartsOf(entry) == SplitDash2(splitext(entry.file_name)[1])
HasKnownCollection(entry) == PartsOf(entry)[1] \in _known_wikis
HasDecimalDate(entry) ==
    /\ Len(PartsOf(entry)) >= 2
    /\ Len(PartsOf(entry)[2]) = 8
    /\ AllDigits(PartsOf(entry)[2])
HasRemainder(entry) == Len(PartsOf(entry)) = 3
Classifies(entry) == HasRemainder(entry) /\ ParsedKeys(PartsOf(entry)[3]) # {}

\* The (wiki, date) keys of the registry
Snapshots == UNION {{<<w, d>> : d \in DOMAIN _corpora[w]} : w \in DOMAIN _corpora}

\* The rows of the registry and of the unknown files, as sets
SnapshotRows(w, d) == {_corpora[w][d].rows[i] : i \in 1..Len(_corpora[w][d].rows)}
UnknownRows == {_unknown_files.rows[i] : i \in 1..Len(_unknown_files.rows)}

\* The entry is held by the unknown files under this wiki and date
InUnknown(entry, wiki, date) ==
    \E row \in UnknownRows :
        /\ row.path = entry.path
        /\ row.name \o row.file_type = entry.file_name
        /\ row.wiki = wiki
        /\ row.date = date

\* The entry is held by some snapshot of the registry
InSnapshot(entry) ==
    \E k \in Snapshots : \E row \in SnapshotRows(k[1], k[2]) :
        row.path = entry.path /\ row.name \o row.file_type = entry.file_name

\* The number of records held: classified plus unknown
TotalRecords == SumCounts(_corpora, Snapshots) + Len(_unknown_files.rows)

\* The entries of the last listing, as scanned entries
LastListing == [i \in 1..Len(scan.entries) |-> [path |-> scan.path, file_name |-> scan.entries[i]]]

\* C1: after any sequence of scans every entry taken in is recorded exactly
\* once, in one snapshot or in the unknown files: the number of records held
\* equals the number of entries taken in, repeated entries counted again.
C1_EveryItemRecordedOnce == Len(Accepted) = TotalRecords

\* C2: a collection is a key of the registry, and a date a key under it, if
\* and only if a record of that collection (and date) with a non-empty
\* descriptor was taken in; a collection or pair whose files were all
\* unclassifiable has no key.
C2_KeysIffClassified ==
    /\ \A w \in _known_wikis :
          w \in DOMAIN _corpora <=>
             \E i \in 1..Len(Accepted) :
                /\ FileInfoTable[Accepted[i].path][Accepted[i].file_name].wiki = w
                /\ FileInfoTable[Accepted[i].path][Accepted[i].file_name].date # None
                /\ Classifies(Accepted[i])
    /\ \A w \in _known_wikis : \A d \in {"20201001", "20201020", "^^^^^^^^"} :
          <<w, d>> \in Snapshots <=>
             \E i \in 1..Len(Accepted) :
                /\ FileInfoTable[Accepted[i].path][Accepted[i].file_name].wiki = w
                /\ FileInfoTable[Accepted[i].path][Accepted[i].file_name].date = d
                /\ Classifies(Accepted[i])

\* C3: every record held in a snapshot of the registry has at least one
\* descriptor flag true.
C3_SnapshotRowsAreClassified ==
    \A k \in Snapshots : \A row \in SnapshotRows(k[1], k[2]) :
        \E flag \in _description_columns : row[flag]

\* C3 witness: a scan took in an unclassifiable file of a snapshot that holds
\* records: the file is with the unknown files, not in the snapshot.
C3_Witness ==
    /\ raised = "none"
    /\ \E i \in 1..Len(scanned) :
          /\ scanned[i].file_name = "enwiki-20201001-junk.txt"
          /\ InUnknown(scanned[i], "enwiki", "20201001")
          /\ ~InSnapshot(scanned[i])
    /\ <<"enwiki", "20201001">> \in Snapshots
    /\ SnapshotRows("enwiki", "20201001") # {}

\* C4: whatever else its listing holds, a file with a known collection, a
\* date of 8 digits and a remainder that matches no naming rule is appended
\* to the unknown files under (collection, date), and the scan returns.
C4_UnclassifiableIsQuarantined ==
    \A i \in 1..Len(LastListing) :
        (/\ scan.bad = {}
         /\ HasKnownCollection(LastListing[i])
         /\ HasDecimalDate(LastListing[i])
         /\ HasRemainder(LastListing[i])
         /\ ~Classifies(LastListing[i]))
        => /\ raised = "none"
           /\ InUnknown(LastListing[i], PartsOf(LastListing[i])[1], PartsOf(LastListing[i])[2])
           /\ PathName([path |-> scan.path, name |-> splitext(scan.entries[i])[1]])
                 \in {get_files(_unknown_files, PartsOf(LastListing[i])[1],
                                PartsOf(LastListing[i])[2]).names[j] :
                        j \in 1..Len(get_files(_unknown_files, PartsOf(LastListing[i])[1],
                                               PartsOf(LastListing[i])[2]).names)}

\* C5: a file whose base name is only a known collection and a date of 8
\* digits is not handed to _parse_wiki_file_names, and is recorded with the
\* unknown files under (collection, date) by a scan that returns.
C5_NoRemainderIsQuarantined ==
    \A i \in 1..Len(LastListing) :
        (/\ scan.bad = {}
         /\ HasKnownCollection(LastListing[i])
         /\ HasDecimalDate(LastListing[i])
         /\ ~HasRemainder(LastListing[i]))
        => /\ raised = "none"
           /\ None \notin parsed
           /\ InUnknown(LastListing[i], PartsOf(LastListing[i])[1], PartsOf(LastListing[i])[2])

\* The path/name strings of the unknown rows of this wiki and date (None:
\* of any), in row order
NamesOfUnknown(wiki, date) ==
    LET kept == SelectSeq(_unknown_files.rows,
                          LAMBDA row : /\ wiki # None => row.wiki = wiki
                                       /\ date # None => row.date = date)
    IN [i \in 1..Len(kept) |-> kept[i].path \o "/" \o kept[i].name]

Elements(seq) == {seq[i] : i \in 1..Len(seq)}

\* C6: get_unknown_files filters the unknown files by their keys: without
\* arguments every row, with a wiki the rows of that wiki (dated or not),
\* with a wiki and a date the rows of that pair, so that each result is
\* contained in the one before; and a file whose first part is no known
\* wiki is among the rows without a wiki: get_unknown_files() holds it and
\* get_unknown_files(wiki) does not.
C6_UnknownFilesFilteredByKeys ==
    /\ (result.op = "get_unknown_files" /\ result.raised = "none") =>
          /\ (result.wiki = None) => result.names = NamesOfUnknown(None, None)
          /\ (result.wiki # None /\ result.date = None) =>
                /\ result.names = NamesOfUnknown(result.wiki, None)
                /\ Elements(result.names) \subseteq Elements(NamesOfUnknown(None, None))
          /\ (result.wiki # None /\ result.date # None) =>
                /\ result.names = NamesOfUnknown(result.wiki, result.date)
                /\ Elements(result.names) \subseteq Elements(NamesOfUnknown(result.wiki, None))
    /\ \A i \in 1..Len(Accepted) :
          ~HasKnownCollection(Accepted[i]) =>
             /\ InUnknown(Accepted[i], None, None)
             /\ (result.op = "get_unknown_files" /\ result.raised = "none") =>
                   LET name == Accepted[i].path \o "/" \o splitext(Accepted[i].file_name)[1]
                   IN IF result.wiki = None THEN name \in Elements(result.names)
                      ELSE name \notin Elements(result.names)

\* C6 witness: the filters were told apart: get_unknown_files(wiki, date)
\* returned one of the two unknown files of the wiki, the other one having
\* no date.
C6_Witness ==
    /\ result.op = "get_unknown_files"
    /\ result.raised = "none"
    /\ result.wiki = "enwiki"
    /\ result.date = "20201001"
    /\ result.names = <<"/data/enwiki-20201001-junk">>
    /\ Len(NamesOfUnknown("enwiki", None)) = 2
    /\ Len(NamesOfUnknown("enwiki", "20201001")) = 1

\* C7: when the first part is a known wiki and the second is not exactly 8
\* decimal digits, _parse_dump_info returns (wiki, None, None) even if a
\* third part exists; the third part is not handed to
\* _parse_wiki_file_names and the file is recorded with the unknown files
\* under the wiki without a date, never in a snapshot.
C7_NoDateIsQuarantined ==
    \A i \in 1..Len(Accepted) :
        (HasKnownCollection(Accepted[i]) /\ ~HasDecimalDate(Accepted[i])) =>
            /\ _parse_dump_info(splitext(Accepted[i].file_name)[1])
                  = <<PartsOf(Accepted[i])[1], None, None>>
            /\ InUnknown(Accepted[i], PartsOf(Accepted[i])[1], None)
            /\ ~InSnapshot(Accepted[i])

\* The entries taken in for (wiki, date) whose remainder is a checksum name
ChecksumEntries(wiki, date) ==
    SelectSeq(Accepted,
              LAMBDA e : /\ Len(PartsOf(e)) = 3
                         /\ PartsOf(e)[1] = wiki
                         /\ PartsOf(e)[2] = date
                         /\ PartsOf(e)[3] \in {"md5sums", "sha1sums"})

\* C8 as stated: get_local_checksum_files(wiki, date) returns the file
\* names of the checksum files of that snapshot, one per file taken in, in
\* the order they were taken in (["enwiki-20201001-md5sums.txt"]).
C8_ChecksumFileNames ==
    (result.op = "get_local_checksum_files" /\ result.raised = "none") =>
        result.names = [i \in 1..Len(ChecksumEntries(result.wiki, result.date)) |->
                           ChecksumEntries(result.wiki, result.date)[i].file_name]

\* C8 amended: get_local_checksum_files(wiki, date) returns the names of the
\* records of that snapshot whose checksum flag is true, a name being the
\* file name without its last extension ("enwiki-20201001-md5sums" for
\* enwiki-20201001-md5sums.txt), one per file taken in, in the order they
\* were taken in.
C8_ChecksumRecordNames ==
    (result.op = "get_local_checksum_files" /\ result.raised = "none") =>
        result.names = [i \in 1..Len(ChecksumEntries(result.wiki, result.date)) |->
                           splitext(ChecksumEntries(result.wiki, result.date)[i].file_name)[1]]

\* C8 witness: two checksum files of one snapshot, taken in by two scans
\* after a file that is no checksum file, are returned in that order.
C8_Witness ==
    /\ result.op = "get_local_checksum_files"
    /\ result.raised = "none"
    /\ result.names = <<"enwiki-20201001-sha1sums", "enwiki-20201001-md5sums">>
    /\ Len(scanned) = 3
    /\ Len(scan.entries) = 1

\* Some file taken in classifies under this wiki (and date, unless None)
ClassifiedTakenIn(wiki, date) ==
    \E i \in 1..Len(Accepted) :
        /\ Classifies(Accepted[i])
        /\ HasKnownCollection(Accepted[i])
        /\ PartsOf(Accepted[i])[1] = wiki
        /\ IsDumpDate(PartsOf(Accepted[i])[2])
        /\ date # None => PartsOf(Accepted[i])[2] = date

\* C9: get_local_dumps(wiki) and get_local_checksum_files(wiki, date) for a
\* wiki or pair of which no classified file was taken in raise KeyError
\* instead of returning an empty result, and a query leaves the registry and
\* the unknown files as they are.
C9_NotFoundIsRaised ==
    /\ [](/\ (result.op = "get_local_dumps" /\ ~ClassifiedTakenIn(result.wiki, None))
                => result.raised = "KeyError"
          /\ (result.op = "get_local_checksum_files"
                /\ ~ClassifiedTakenIn(result.wiki, result.date))
                => result.raised = "KeyError")
    /\ [][result'.op \in {"get_local_dumps", "get_local_checksum_files"}
             => (_corpora' = _corpora /\ _unknown_files' = _unknown_files)]_vars

\* C9 witness: a query for a dump that was not taken in raised KeyError
\* while the registry holds another dump of the same wiki.
C9_Witness ==
    /\ result.op = "get_local_checksum_files"
    /\ result.raised = "KeyError"
    /\ result.wiki = "enwiki"
    /\ result.date = "20201020"
    /\ <<"enwiki", "20201001">> \in Snapshots

\* C10 as stated: an entry whose metadata cannot be read does not keep the
\* other entries of its listing from being recorded.
C10_BadEntryIsIsolated ==
    \A i \in 1..Len(LastListing) :
        (scan.bad # {} /\ scan.entries[i] \notin scan.bad) =>
            (InSnapshot(LastListing[i]) \/ \E w, d \in _known_wikis \cup {None, "20201001", "20201020", "^^^^^^^^"} :
                                               InUnknown(LastListing[i], w, d))

\* C10 amended: an entry whose metadata cannot be read makes the scan of its
\* directory raise OSError, and no entry of that listing is recorded,
\* readable or not: the registry and the unknown files are left as they were
\* before the scan.
C10_BadEntryEndsTheScan ==
    /\ [](scan.bad # {} => raised = "OSError")
    /\ [][scan'.bad # {} => (_corpora' = _corpora /\ _unknown_files' = _unknown_files)]_vars

\* C10 witness: the scan of a listing of two entries, one of them unreadable,
\* raised OSError after an earlier scan had recorded a file.
C10_Witness ==
    /\ raised = "OSError"
    /\ Len(scan.entries) = 2
    /\ Cardinality(scan.bad) = 1
    /\ TotalRecords = 1

\* The parts of made_of that exist
HasThird == made_of[3] # None

\* Exactly 8 decimal digits
EightDigits(part) == Len(part) = 8 /\ AllDigits(part)

\* C11: _parse_dump_info splits the name at its first two dashes only: for
\* a name put together from a known wiki, a part of exactly 8 decimal
\* digits (a calendar date or not) and a third part, it returns these three,
\* the third being the whole tail with its dashes, so that the three joined
\* by dashes are the name; and it never returns a date without a wiki, nor
\* a description without a date.
C11_DumpInfoIsTheThreeParts ==
    parse_step \notin {"idle", "named"} =>
        /\ (made_of[1] \in _known_wikis /\ made_of[2] # None /\ EightDigits(made_of[2]) /\ HasThird) =>
              /\ dump_info = made_of
              /\ dump_info[1] \o "-" \o dump_info[2] \o "-" \o dump_info[3] = file_base
        /\ dump_info[2] # None => dump_info[1] # None
        /\ dump_info[3] # None => dump_info[2] # None

\* C11 witness: a name whose date is no calendar date and whose third part
\* has dashes was taken apart.
C11_Witness ==
    /\ parse_step = "extracted"
    /\ file_base = "enwiki-99999999-pages-meta-history27.xml-p1000p2000"
    /\ dump_info = <<"enwiki", "99999999", "pages-meta-history27.xml-p1000p2000">>

\* The flags each set by one top-level branch only (the stub branch has
\* none of its own)
TopLevelFlags == {"pages", "abstracts", "sql", "checksum", "titles", "namespaces"}

\* The name starts with the prefix of one of the first three branches
BeforeSql(name) ==
    StartsWith(name, "pages") \/ StartsWith(name, "stub") \/ StartsWith(name, "abstract")

\* C12: _parse_wiki_file_names takes one top-level branch per name, the
\* first of pages, stub, abstract, '.sql', checksum names, all-titles,
\* siteinfo-namespaces.json whose test holds: at most one top-level flag is
\* set; a name starting with pages, stub or abstract never gets sql (nor a
\* flag of a later branch) even if it contains '.sql'; and a name with
\* '.sql' that reaches the sql branch gets sql and never checksum, titles or
\* namespaces.
C12_OneTopLevelBranch ==
    parse_step = "classified" =>
        /\ Cardinality({k \in TopLevelFlags : flags[k]}) <= 1
        /\ StartsWith(dump_info[3], "pages") => flags["pages"]
        /\ (~StartsWith(dump_info[3], "pages") /\ ~StartsWith(dump_info[3], "stub")
               /\ StartsWith(dump_info[3], "abstract")) => flags["abstracts"]
        /\ BeforeSql(dump_info[3]) =>
              \A k \in {"sql", "checksum", "titles", "namespaces"} : ~flags[k]
        /\ (~BeforeSql(dump_info[3]) /\ Contains(dump_info[3], ".sql")) =>
              /\ flags["sql"]
              /\ \A k \in {"checksum", "titles", "namespaces"} : ~flags[k]

\* C12 witness: a name with '.sql' that also starts with all-titles was
\* classified as sql, not as titles.
C12_Witness ==
    /\ parse_step = "classified"
    /\ dump_info[3] = "all-titles.sql"
    /\ flags["sql"]
    /\ ~flags["titles"]

\* C13: a fine flag is never set without the coarser flags of its branch:
\* set with history or current implies rev_metadata (and pages on a name
\* starting with pages), set with index implies indexed, articles and
\* pages, set implies one of the flags a shaped match is tested under;
\* history or current is never set without rev_metadata, index never
\* without indexed.
C13_FineImpliesCoarse ==
    parse_step = "classified" =>
        /\ (flags["set"] /\ (flags["history"] \/ flags["current"])) =>
              /\ flags["rev_metadata"]
              /\ StartsWith(dump_info[3], "pages") => flags["pages"]
        /\ (flags["set"] /\ flags["index"]) =>
              (flags["indexed"] /\ flags["articles"] /\ flags["pages"])
        /\ (flags["set"] /\ flags["indexed"]) => (flags["articles"] /\ flags["pages"])
        /\ (flags["set"] /\ flags["logging"]) => flags["pages"]
        /\ flags["set"] =>
              \/ flags["history"] \/ flags["current"] \/ flags["articles"]
              \/ flags["logging"] \/ flags["abstracts"]
        /\ (flags["history"] \/ flags["current"]) => flags["rev_metadata"]
        /\ flags["index"] => flags["indexed"]

\* C13 witness: a part of the multistream index was classified: set under
\* index, indexed, articles and pages.
C13_Witness ==
    /\ parse_step = "classified"
    /\ dump_info[3] = "pages-articles-multistream-index12.txt-p1p2"
    /\ flags["set"] /\ flags["index"] /\ flags["indexed"] /\ flags["articles"] /\ flags["pages"]

\* The prefixes whose shaped match has a page range, with their extensions
PagedPrefixes ==
    {<<"pages-meta-history", ".xml">>, <<"pages-meta-current", ".xml">>,
     <<"pages-articles", ".xml">>, <<"pages-articles-multistream", ".xml">>,
     <<"pages-articles-multistream-index", ".txt">>}

\* The number of decimal digits the string starts with
RECURSIVE LeadingDigits(_)
LeadingDigits(str) ==
    IF Len(str) > 0 /\ IsDecimalDigit(CharAt(str, 1)) THEN 1 + LeadingDigits(Suffix(str, 2)) ELSE 0

\* -pSTARTpEND, both numbers of one digit or more
IsPageRange(str) ==
    /\ StartsWith(str, "-p")
    /\ LeadingDigits(Suffix(str, 3)) > 0
    /\ LET rest == Suffix(str, 3 + LeadingDigits(Suffix(str, 3)))
       IN /\ StartsWith(rest, "p")
          /\ Len(rest) > 1
          /\ LeadingDigits(Suffix(rest, 2)) = Len(rest) - 1

\* The name is the prefix, shard digits, the extension and a page range
HasShape(name, prefix, ext) ==
    /\ StartsWith(name, prefix)
    /\ LET after == Suffix(name, Len(prefix) + 1)
           tail == Suffix(after, LeadingDigits(after) + 1)
       IN /\ StartsWith(tail, ext)
          /\ IsPageRange(Suffix(tail, Len(ext) + 1))

\* The number of shard digits of a name of that shape
ShardDigits(name, prefix) == LeadingDigits(Suffix(name, Len(prefix) + 1))

\* C14 as stated: the shard number is optional: a name made of a recognized
\* prefix, zero, one or two shard digits, the extension and the page range
\* gets set, and one with three or more shard digits does not.
C14_ShardIsOptional ==
    parse_step = "classified" =>
        \A pe \in PagedPrefixes :
            HasShape(dump_info[3], pe[1], pe[2]) =>
                (flags["set"] <=> ShardDigits(dump_info[3], pe[1]) \in {0, 1, 2})

\* C14 amended: the shard number is required: a name made of one of the
\* prefixes pages-meta-history, pages-meta-current, pages-articles,
\* pages-articles-multistream (extension .xml) or
\* pages-articles-multistream-index (extension .txt), shard digits, the
\* extension and the page range gets set exactly when the shard has one or
\* two digits: neither without a shard nor with three or more digits.
C14_ShardIsRequired ==
    parse_step = "classified" =>
        \A pe \in PagedPrefixes :
            HasShape(dump_info[3], pe[1], pe[2]) =>
                (flags["set"] <=> ShardDigits(dump_info[3], pe[1]) \in {1, 2})

\* C14 witness: a name of the shape without a shard was classified and did
\* not get set.
C14_Witness ==
    /\ parse_step = "classified"
    /\ dump_info[3] = "pages-meta-history.xml-p1p2"
    /\ HasShape(dump_info[3], "pages-meta-history", ".xml")
    /\ ShardDigits(dump_info[3], "pages-meta-history") = 0
    /\ flags["history"]
    /\ ~flags["set"]

\* The entry is a file of a dump whose description starts with stub
InStubBranch(entry) ==
    /\ HasKnownCollection(entry)
    /\ HasDecimalDate(entry)
    /\ HasRemainder(entry)
    /\ StartsWith(PartsOf(entry)[3], "stub")

\* The description matches the stub-articles or the stub-meta sub-rule
InStubSubRule(description) ==
    StartsWith(description, "stub-articles") \/ StartsWith(description, "stub-meta")

\* C15: for a name in the stub branch _parse_wiki_file_names sets neither
\* stubs nor pages; a name starting with stub that matches neither
\* stub-articles nor stub-meta keeps the all-false description, '.sql' in
\* it or not, and its file is recorded with the unknown files under its
\* wiki and date, in no snapshot, by a scan that returns.
C15_StubBranchSetsNoStubs ==
    \A i \in 1..Len(LastListing) :
        (scan.bad = {} /\ InStubBranch(LastListing[i])) =>
            /\ ~FeaturesTable[PartsOf(LastListing[i])[3]]["stubs"]
            /\ ~FeaturesTable[PartsOf(LastListing[i])[3]]["pages"]
            /\ ~InStubSubRule(PartsOf(LastListing[i])[3]) =>
                  /\ FeaturesTable[PartsOf(LastListing[i])[3]] = _descriptions_init
                  /\ raised = "none"
                  /\ InUnknown(LastListing[i], PartsOf(LastListing[i])[1], PartsOf(LastListing[i])[2])
                  /\ ~InSnapshot(LastListing[i])

\* C16: while the unknown files hold no record, on a tracker that scanned
\* nothing as after scans whose files were all classified,
\* get_unknown_files, with or without arguments, returns the empty list and
\* get_local_file_count returns the number of classified records: neither
\* raises.
C16_EmptyUnknownFilesAnswer ==
    (_unknown_files.rows = <<>> /\ result.op \in {"get_unknown_files", "get_local_file_count"}) =>
        /\ result.raised = "none"
        /\ result.op = "get_unknown_files" => result.names = <<>>
        /\ result.op = "get_local_file_count" => result.count = SumCounts(_corpora, Snapshots)

\* C17: the calls of __next__ return the targets in list order, each once,
\* and _index never exceeds the number of targets; once all targets were
\* returned a further call leaves _index as it is and raises StopIteration:
\* it returns no value.
C17_TargetsThenStopIteration ==
    /\ [](/\ _index <= Len(_url_list)
          /\ SubSeq(returned, 1, _index) = SubSeq(_url_list, 1, _index)
          /\ Len(returned) <= Len(_url_list))
    /\ [][_index = Len(_url_list) =>
            /\ _index' = _index
            /\ next_result'.how = "raise"
            /\ next_result'.value = StopIteration
            /\ returned' = returned]_vars

====
